---- MODULE Spec2Model ----
(***************************************************************************)
(* A model of the task orchestrator of app/main.py: entry_swe_bench_mode,  *)
(* run_task_group and run_one_task.                                        *)
(*                                                                         *)
(* Task ids are modelled as the integers 1..MaxTasks (their numeric order  *)
(* stands for the lexicographic order of the id strings), environment      *)
(* names as integers too.  An optional argument (str | None) is a sequence *)
(* of length 0 (None) or 1.                                                *)
(*                                                                         *)
(* The external collaborators (the filesystem of lines 82-106,             *)
(* ProjectApiManager, fault_localization, inference.run_one_task, the      *)
(* multiprocessing Pool and organize_and_form_input) are the environment:  *)
(* each of their calls nondeterministically returns or raises.  The steps  *)
(* of the finally block of run_one_task (lines 163-195) are taken to       *)
(* return normally.                                                        *)
(*                                                                         *)
(* Four specifications share the actions: Spec starts at the call of       *)
(* entry_swe_bench_mode with no time passing; MainSpec starts in main,     *)
(* once the arguments are parsed; ClockSpec lets the clock that line 82    *)
(* reads advance; DispatchSpec starts at line 287 with groups of up to     *)
(* MaxGroupSize Tasks.  The module globals_mut is not part of the source   *)
(* at hand: its counter of completed Tasks is incremented by one,          *)
(* atomically, at each call of incre_task_return_msg.                      *)
(***************************************************************************)
EXTENDS Integers, Sequences, FiniteSets, TLC

\* ------------------------------------------------------------------ bounds
MaxTasks == 3
MaxProcesses == 2

TaskIds == 1..MaxTasks
Envs == 1..MaxTasks

VARIABLES
    task_id,                \* argument: <<>> (None) or <<id>>
    task_list_file,         \* argument: <<>> (None) or <<"file">>, the file's path
    num_processes,          \* argument, later clamped (line 301)
    only_save_sbfl_result,  \* globals.only_save_sbfl_result
    setup_map,              \* local: function task id -> env_name, over the map's keys
    tasks_map,              \* local: the set of ids that are keys of the tasks map
    main_pc,                \* position of entry_swe_bench_mode
    error,                  \* the exception that ended entry_swe_bench_mode, or "none"
    all_task_ids,           \* local of entry_swe_bench_mode
    missing_task_ids,       \* local of entry_swe_bench_mode
    all_tasks,              \* local: the Task instances, in order
    task_groups,            \* local: insertion-ordered dict, a sequence of [key, items]
    task_group_ids_items,   \* local: the sorted list handed to starmap
    idx,                    \* single process mode: position of the for loop of line 292
    run,                    \* per Task: the state of its run_one_task execution
    pool_queue,             \* jobs (indices into task_group_ids_items) not yet taken
    job_status,             \* per job: "queued", "running", "finished" or "raised"
    workers,                \* per pool worker: its job (0 when idle) and loop position
    agg_calls,              \* number of calls of organize_and_form_input
    num_completed_tasks,    \* the counter of globals_mut that incre_task_return_msg increments
    now,                    \* the clock datetime.datetime.now() reads, in ticks
    mode,                   \* main: args.mode
    extract_patches,        \* main: <<>> (None) or <<"dir">>
    re_extract_patches,     \* main: <<>> (None) or <<"dir">>
    extract_calls,          \* main: number of calls of the two patch extraction functions
    MODEL_COST_PER_INPUT,   \* globals: the input cost per token of globals.model
    MODEL_COST_PER_OUTPUT   \* globals: the output cost per token of globals.model

vars == <<task_id, task_list_file, num_processes, only_save_sbfl_result,
          setup_map, tasks_map, main_pc, error, all_task_ids, missing_task_ids,
          all_tasks, task_groups, task_group_ids_items, idx, run,
          pool_queue, job_status, workers, agg_calls, num_completed_tasks, now,
          mode, extract_patches, re_extract_patches, extract_calls,
          MODEL_COST_PER_INPUT, MODEL_COST_PER_OUTPUT>>

args == <<task_id, task_list_file, only_save_sbfl_result, setup_map, tasks_map>>
locals == <<all_task_ids, missing_task_ids, all_tasks, task_groups>>
pool == <<pool_queue, job_status, workers>>
cli == <<mode, extract_patches, re_extract_patches, extract_calls,
         MODEL_COST_PER_INPUT, MODEL_COST_PER_OUTPUT>>

\* ------------------------------------------------------- pure helpers
\* Insert x into the ascending sequence s, after the elements equal to it.
RECURSIVE InsertAsc(_, _)
InsertAsc(s, x) ==
    IF s = <<>> THEN <<x>>
    ELSE IF x < Head(s) THEN <<x>> \o s
    ELSE <<Head(s)>> \o InsertAsc(Tail(s), x)

\* sorted(all_task_ids), line 259
RECURSIVE Sorted(_)
Sorted(s) ==
    IF s = <<>> THEN <<>>
    ELSE InsertAsc(Sorted(SubSeq(s, 1, Len(s) - 1)), s[Len(s)])



\* A test that looks an id up in the setup map only.
InSetupMapOnly(x, smap, tmap) == x \in DOMAIN smap

\* x in setup_map and x in tasks_map, line 248
InBothMaps(x, smap, tmap) == x \in DOMAIN smap /\ x \in tmap

\* the list comprehension of lines 247-249
MissingOf(ids, smap, tmap) == SelectSeq(ids, LAMBDA x : ~InBothMaps(x, smap, tmap))

\* the filter of line 257
DropMissing(ids, missing) ==
    SelectSeq(ids, LAMBDA x : \A k \in 1..Len(missing) : missing[k] /= x)

\* all_task_ids as lines 247-259 leave it
RunnableIds(ids, smap, tmap) ==
    Sorted(IF MissingOf(ids, smap, tmap) /= <<>>
           THEN DropMissing(ids, MissingOf(ids, smap, tmap))
           ELSE ids)

\* Task(f"{idx + 1}/{num_tasks}", task_id, setup_info, task_info), lines 265-269
MakeTasks(ids, smap) ==
    [k \in 1..Len(ids) |->
        [task_counter |-> k, task_id |-> ids[k], env_name |-> smap[ids[k]]]]

\* A grouping by task id instead of by environment name.
GroupKeyById(task) == task.task_id

\* key = task.setup_info["env_name"], line 277
GroupKey(task) == task.env_name

\* A grouping that starts the group's list afresh for every Task instead of
\* appending to it.
AddToGroupsOverwriting(groups, task) ==
    IF \E g \in 1..Len(groups) : groups[g].key = task.env_name
    THEN [g \in 1..Len(groups) |->
            IF groups[g].key = task.env_name
            THEN [groups[g] EXCEPT !.items = <<task.task_counter>>]
            ELSE groups[g]]
    ELSE Append(groups, [key |-> task.env_name, items |-> <<task.task_counter>>])

\* A grouping that puts a Task in front of the Tasks its group already has.
AddToGroupsInFront(groups, task) ==
    IF \E g \in 1..Len(groups) : groups[g].key = task.env_name
    THEN [g \in 1..Len(groups) |->
            IF groups[g].key = task.env_name
            THEN [groups[g] EXCEPT !.items = <<task.task_counter>> \o @]
            ELSE groups[g]]
    ELSE Append(groups, [key |-> task.env_name, items |-> <<task.task_counter>>])

\* one iteration of the loop of lines 276-280; a group lists its Tasks by task_counter
AddToGroups(groups, task) ==
    IF \E g \in 1..Len(groups) : groups[g].key = GroupKey(task)
    THEN [g \in 1..Len(groups) |->
            IF groups[g].key = GroupKey(task)
            THEN [groups[g] EXCEPT !.items = Append(@, task.task_counter)]
            ELSE groups[g]]
    ELSE Append(groups, [key |-> GroupKey(task), items |-> <<task.task_counter>>])

\* the loop of lines 274-280 over the Tasks
RECURSIVE GroupTasks(_)
GroupTasks(tasks) ==
    IF tasks = <<>> THEN <<>>
    ELSE AddToGroups(GroupTasks(SubSeq(tasks, 1, Len(tasks) - 1)), tasks[Len(tasks)])

\* Insert g into s, sorted by descending size, after the groups at least as large.
RECURSIVE InsertDesc(_, _)
InsertDesc(s, g) ==
    IF s = <<>> THEN <<g>>
    ELSE IF Len(g.items) > Len(Head(s).items) THEN <<g>> \o s
    ELSE <<Head(s)>> \o InsertDesc(Tail(s), g)

\* A list of groups left in the order of the dict.
InInsertionOrder(s) == s

\* sorted(task_group_ids_items, key=lambda x: len(x[1]), reverse=True), lines 305-307
RECURSIVE SortedBySize(_)
SortedBySize(s) ==
    IF s = <<>> THEN <<>>
    ELSE InsertDesc(SortedBySize(SubSeq(s, 1, Len(s) - 1)), s[Len(s)])

\* A pool of as many workers as were asked for.
NoClamp(a, b) == a

\* min(num_processes, num_task_groups), line 301
Min(a, b) == IF a <= b THEN a ELSE b

\* ------------------------------------------------------------ inputs
SetMax(S) == IF S = {} THEN 0 ELSE CHOOSE m \in S : \A x \in S : x <= m

Range(s) == {s[k] : k \in 1..Len(s)}

\* The contents of a task list file: lists of at most n ids, in any order and with
\* repetitions.  Ids are only compared with each other and looked up in the maps,
\* so the ids of a list are drawn as an initial segment 1..m of the ids.
IdLists(n) ==
    UNION {{l \in [1..k -> TaskIds] : Range(l) = 1..SetMax(Range(l))} : k \in 0..n}

\* Setup maps over the key set D.  Environment names are only ever compared for
\* equality, so one map per partition of D is drawn: an id gets an environment an
\* earlier id has, or the next unused one.
SetupMaps(D) ==
    {f \in [D -> Envs] :
        \A x \in D : f[x] <= 1 + SetMax({f[y] : y \in {z \in D : z < x}})}

\* The key sets of the two maps.  The entries of ids that were not requested are
\* never read, and the maps are drawn without them: a map has every requested id,
\* or every requested id but the last.
KeySets(requested) == {requested, requested \ {SetMax(requested)}}

\* the state of a Task's run_one_task execution before it is called
NotRun == [pc |-> "idle", calls |-> 0, results |-> <<>>, ctor |-> "none",
           fl |-> "none", inf |-> "none", dumps |-> 0, costs |-> 0, resets |-> 0,
           releases |-> 0, status_lines |-> 0, msg |-> "", run_ok |-> FALSE,
           start_time |-> 0, input_tokens |-> 0, output_tokens |-> 0,
           cost_json |-> <<>>]

Init ==
    /\ task_id \in {<<>>} \cup {<<i>> : i \in TaskIds}
    /\ task_list_file \in {<<>>, <<"file">>}
    /\ num_processes \in 1..MaxProcesses
    /\ only_save_sbfl_result \in BOOLEAN
    /\ setup_map = <<>>
    /\ tasks_map = {}
    /\ main_pc = "check"
    /\ error = "none"
    /\ all_task_ids = <<>>
    /\ missing_task_ids = <<>>
    /\ all_tasks = <<>>
    /\ task_groups = <<>>
    /\ task_group_ids_items = <<>>
    /\ idx = 0
    /\ run = <<>>
    /\ pool_queue = <<>>
    /\ job_status = <<>>
    /\ workers = <<>>
    /\ agg_calls = 0
    /\ num_completed_tasks = 0
    /\ now = 0
    /\ mode = "swe_bench"
    /\ extract_patches = <<>>
    /\ re_extract_patches = <<>>
    /\ extract_calls = 0
    /\ MODEL_COST_PER_INPUT = 1
    /\ MODEL_COST_PER_OUTPUT = 2

\* ------------------------------------------------- entry_swe_bench_mode
\* A check of the parameters that lets every combination pass.
NeverConflicting(tid, file) == FALSE

\* the test of line 228: both a task and a task list are given
ConflictingSelection(tid, file) == tid /= <<>> /\ file /= <<>>

\* lines 228-229: both a task and a task list
CheckParamsRaise ==
    /\ main_pc = "check"
    /\ ConflictingSelection(task_id, task_list_file)
    /\ main_pc' = "raised"
    /\ error' = "ValueError"
    /\ UNCHANGED <<args, num_processes, locals, task_group_ids_items, idx, run,
                   pool, agg_calls,
                   num_completed_tasks, now, cli>>

\* all_task_ids as lines 231-235 leave it, the task list file holding the ids `file`
ParsedIds(file) ==
    IF task_id /= <<>> THEN <<task_id[1]>>
    ELSE IF task_list_file /= <<>> THEN file
    ELSE <<>>

\* lines 231-237: no task ids to run
ParseIdsRaise ==
    /\ main_pc = "check"
    /\ ~ConflictingSelection(task_id, task_list_file)
    /\ \E file \in IdLists(MaxTasks) : Len(ParsedIds(file)) = 0
    /\ main_pc' = "raised"
    /\ error' = "ValueError"
    /\ UNCHANGED <<args, num_processes, locals, task_group_ids_items, idx, run,
                   pool, agg_calls,
                   num_completed_tasks, now, cli>>

\* lines 228-237, no exception
ParseIds ==
    /\ main_pc = "check"
    /\ ~ConflictingSelection(task_id, task_list_file)
    /\ \E file \in IdLists(MaxTasks) :
          /\ Len(ParsedIds(file)) /= 0
          /\ all_task_ids' = ParsedIds(file)
    /\ main_pc' = "load"
    /\ UNCHANGED <<args, num_processes, error, missing_task_ids, all_tasks,
                   task_groups, task_group_ids_items, idx, run, pool, agg_calls,
                   num_completed_tasks, now, cli>>

\* task_id once the loops of lines 252 and 265 have rebound it
LoopVarAfter(missing, ids) ==
    IF ids /= <<>> THEN <<ids[Len(ids)]>>
    ELSE IF missing /= <<>> THEN <<Sorted(missing)[Len(missing)]>>
    ELSE task_id

\* lines 239-287: load the maps, drop the missing ids, sort, build the Tasks and
\* group them
Prepare ==
    /\ main_pc = "load"
    /\ \E D \in KeySets(Range(all_task_ids)) : setup_map' \in SetupMaps(D)
    /\ tasks_map' \in KeySets(Range(all_task_ids))
    /\ missing_task_ids' = MissingOf(all_task_ids, setup_map', tasks_map')
    /\ all_task_ids' = RunnableIds(all_task_ids, setup_map', tasks_map')
    /\ all_tasks' = MakeTasks(all_task_ids', setup_map')
    /\ task_groups' = GroupTasks(all_tasks')
    /\ run' = [k \in 1..Len(all_tasks') |-> NotRun]
    /\ task_id' = LoopVarAfter(missing_task_ids', all_task_ids')
    /\ main_pc' = "dispatch"
    /\ UNCHANGED <<task_list_file, only_save_sbfl_result, num_processes, error,
                   task_group_ids_items, idx, pool, agg_calls,
                   num_completed_tasks, now, cli>>

\* ------------------------------------------------------- run_one_task
\* A call of run_one_task(task), lines 64-106: the clock is read (line 82), then
\* the output directory, the meta files and the logger are created (created), or
\* one of these filesystem calls raises and nothing catches it
Called(r, created) ==
    [r EXCEPT !.pc = IF created THEN "ctor" ELSE "raised", !.calls = @ + 1,
              !.start_time = now]

\* lines 108-124 and the test of line 134: ProjectApiManager(...) returns
CtorReturned(r) ==
    [r EXCEPT !.ctor = "ok",
              !.pc = IF only_save_sbfl_result THEN "sbfl" ELSE "run"]

\* A construction failure that is not caught and leaves run_one_task.
CtorExceptPropagating(r) == [r EXCEPT !.ctor = "raise", !.pc = "raised"]

\* A construction failure that goes on to the cleanup of the finally block.
CtorExceptThenFinally(r) ==
    [r EXCEPT !.ctor = "raise",
              !.msg = "failed with exception when creating API manager",
              !.pc = "finally"]

\* lines 125-131: ProjectApiManager(...) raises
CtorExcept(r) ==
    [r EXCEPT !.ctor = "raise",
              !.msg = "failed with exception when creating API manager",
              !.releases = @ + 1,
              !.results = Append(@, FALSE),
              !.pc = "returned"]

Ctor(i) ==
    /\ run[i].pc = "ctor"
    /\ \/ run' = [run EXCEPT ![i] = CtorReturned(@)]
       \/ run' = [run EXCEPT ![i] = CtorExcept(@)]
    /\ UNCHANGED <<args, num_processes, main_pc, error, locals,
                   task_group_ids_items, idx, pool, agg_calls,
                   num_completed_tasks, now, cli>>

\* line 146: the value returned in the SBFL-only mode
SbflReturn(run_ok) == TRUE

\* lines 134-146: fault_localization() returned run_ok
SbflOnly(r, run_ok) ==
    [r EXCEPT !.fl = IF run_ok THEN "ok" ELSE "fail",
              !.run_ok = run_ok,
              !.msg = IF run_ok THEN "[SBFL only] completed successfully"
                      ELSE "[SBFL only] failed to produce result",
              !.status_lines = @ + 1,
              !.results = Append(@, SbflReturn(run_ok)),
              !.pc = "returned"]

Sbfl(i) ==
    /\ run[i].pc = "sbfl"
    /\ \E run_ok \in BOOLEAN : run' = [run EXCEPT ![i] = SbflOnly(@, run_ok)]
    /\ UNCHANGED <<args, num_processes, main_pc, error, locals,
                   task_group_ids_items, idx, pool, agg_calls,
                   num_completed_tasks, now, cli>>

\* run_ok when it starts True and the except clause does not reset it.
RunOkUnlessFalse(outcome) == outcome /= "fail"

\* run_ok as lines 149-161 leave it
RunOkAfter(outcome) == outcome = "ok"

\* run_status_message as lines 150-160 leave it
StatusAfter(outcome) ==
    IF outcome = "ok" THEN "completed successfully"
    ELSE IF outcome = "fail" THEN "failed without exception"
    ELSE "failed with exception"

\* The cleanup written after the try statement instead of in a finally clause, the
\* exception being re-raised.
AfterInferenceNoFinally(outcome) == IF outcome = "raise" THEN "raised" ELSE "finally"

\* where control goes after the try/except of lines 151-161
AfterInference(outcome) == "finally"

\* lines 149-161: inference.run_one_task returns True ("ok"), returns False
\* ("fail") or raises ("raise")
TryInference(r, outcome) ==
    [r EXCEPT !.inf = outcome,
              !.run_ok = RunOkAfter(outcome),
              !.msg = StatusAfter(outcome),
              !.pc = AfterInference(outcome)]

Inference(i) ==
    /\ run[i].pc = "run"
    /\ \E outcome \in {"ok", "fail", "raise"} :
          run' = [run EXCEPT ![i] = TryInference(@, outcome)]
    /\ UNCHANGED <<args, num_processes, main_pc, error, locals,
                   task_group_ids_items, idx, pool, agg_calls,
                   num_completed_tasks, now, cli>>

\* output_cost_per_token, line 170: read from MODEL_COST_PER_INPUT
OutputCostPerToken(input_cost, output_cost) == input_cost

\* the object dumped to cost.json, lines 172-185, for the token counters of the
\* api_manager (the model, the commit, the total cost and the times are left out)
CostJson(input_tokens, output_tokens) ==
    [input_cost_per_token |-> MODEL_COST_PER_INPUT,
     output_cost_per_token |->
         OutputCostPerToken(MODEL_COST_PER_INPUT, MODEL_COST_PER_OUTPUT),
     total_input_tokens |-> input_tokens,
     total_output_tokens |-> output_tokens,
     total_tokens |-> input_tokens + output_tokens]

\* lines 162-196: the finally block and its return
FinallyBlock(r) ==
    [r EXCEPT !.dumps = @ + 1,
              !.costs = @ + 1,
              !.cost_json = <<CostJson(r.input_tokens, r.output_tokens)>>,
              !.resets = @ + 1,
              !.status_lines = @ + 1,
              !.releases = @ + 1,
              !.results = Append(@, r.run_ok),
              !.pc = "returned"]

Finally(i) ==
    /\ run[i].pc = "finally"
    /\ run' = [run EXCEPT ![i] = FinallyBlock(@)]
    /\ UNCHANGED <<args, num_processes, main_pc, error, locals,
                   task_group_ids_items, idx, pool, agg_calls,
                   num_completed_tasks, now, cli>>

\* ---------------------------------------- single process mode, lines 290-294
DispatchSingle ==
    /\ main_pc = "dispatch"
    /\ num_processes = 1
    /\ main_pc' = "single_loop"
    /\ UNCHANGED <<args, num_processes, error, locals, task_group_ids_items, idx,
                   run, pool, agg_calls,
                   num_completed_tasks, now, cli>>

\* A loop that visits the Tasks group by group.
RECURSIVE GroupByGroup(_, _)
GroupByGroup(tasks, groups) ==
    IF groups = <<>> THEN <<>>
    ELSE Head(groups).items \o GroupByGroup(tasks, Tail(groups))

\* the Tasks in the order the loop of line 292 visits them: that of all_tasks
SingleOrder(tasks, groups) == [k \in 1..Len(tasks) |-> k]

\* the Task the loop of line 292 is at
LoopTask == SingleOrder(all_tasks, task_groups)[idx]

\* the for loop of line 292 calls run_one_task for the next Task
SingleCall ==
    /\ main_pc = "single_loop"
    /\ idx < Len(all_tasks)
    /\ IF idx = 0 THEN TRUE ELSE run[LoopTask].pc = "returned"
    /\ idx' = idx + 1
    /\ \E created \in BOOLEAN :
          run' = [run EXCEPT ![SingleOrder(all_tasks, task_groups)[idx + 1]] =
                                  Called(@, created)]
    /\ UNCHANGED <<args, num_processes, main_pc, error, locals,
                   task_group_ids_items, pool, agg_calls,
                   num_completed_tasks, now, cli>>

\* an exception of run_one_task leaves the loop and entry_swe_bench_mode
SingleRaise ==
    /\ main_pc = "single_loop"
    /\ idx > 0
    /\ run[LoopTask].pc = "raised"
    /\ main_pc' = "raised"
    /\ error' = "task"
    /\ UNCHANGED <<args, num_processes, locals, task_group_ids_items, idx, run,
                   pool, agg_calls,
                   num_completed_tasks, now, cli>>

\* line 294: the loop is exhausted
SingleDone ==
    /\ main_pc = "single_loop"
    /\ idx = Len(all_tasks)
    /\ IF idx = 0 THEN TRUE ELSE run[LoopTask].pc = "returned"
    /\ main_pc' = "post"
    /\ UNCHANGED <<args, num_processes, error, locals, task_group_ids_items, idx,
                   run, pool, agg_calls,
                   num_completed_tasks, now, cli>>

\* ----------------------------------------- multi process mode, lines 297-317
\* lines 299-310
DispatchMulti ==
    /\ main_pc = "dispatch"
    /\ num_processes /= 1
    /\ num_processes' = Min(num_processes, Len(task_groups))
    /\ task_group_ids_items' = SortedBySize(task_groups)
    /\ main_pc' = "pool_create"
    /\ UNCHANGED <<args, error, locals, idx, run, pool, agg_calls,
                   num_completed_tasks, now, cli>>

\* A pool failure that is caught and logged, the run going on to line 319.
AfterPoolFailureSwallowed == "post"

\* where entry_swe_bench_mode goes when the try block of lines 311-315 raises:
\* the finally clause of line 316 catches nothing
AfterPoolFailure == "raised"

\* line 312: Pool(processes=num_processes) starts the workers
PoolCreate ==
    /\ main_pc = "pool_create"
    /\ num_processes >= 1
    /\ workers' = [w \in 1..num_processes |-> [job |-> 0, pos |-> 0]]
    /\ main_pc' = "starmap"
    /\ UNCHANGED <<args, num_processes, error, locals, task_group_ids_items, idx,
                   run, pool_queue, job_status, agg_calls,
                   num_completed_tasks, now, cli>>

\* line 312: Pool raises (always when processes < 1)
PoolCreateRaise ==
    /\ main_pc = "pool_create"
    /\ main_pc' = AfterPoolFailure
    /\ error' = "pool"
    /\ UNCHANGED <<args, num_processes, locals, task_group_ids_items, idx, run,
                   pool, agg_calls,
                   num_completed_tasks, now, cli>>

\* line 313: starmap queues one job per group, in the order of the list
StarmapSubmit ==
    /\ main_pc = "starmap"
    /\ pool_queue' = [j \in 1..Len(task_group_ids_items) |-> j]
    /\ job_status' = [j \in 1..Len(task_group_ids_items) |-> "queued"]
    /\ main_pc' = "wait"
    /\ UNCHANGED <<args, num_processes, error, locals, task_group_ids_items, idx,
                   run, workers, agg_calls,
                   num_completed_tasks, now, cli>>

\* line 313: submitting the jobs raises
StarmapSubmitRaise ==
    /\ main_pc = "starmap"
    /\ main_pc' = AfterPoolFailure
    /\ error' = "pool"
    /\ UNCHANGED <<args, num_processes, locals, task_group_ids_items, idx, run,
                   pool, agg_calls,
                   num_completed_tasks, now, cli>>

\* task_group_items of the job a worker runs, and the Task its loop is at
ItemsOf(w) == task_group_ids_items[workers[w].job].items
TaskOf(w) == ItemsOf(w)[workers[w].pos]

\* ---------------------------------------------- run_task_group, lines 199-214
\* An idle worker takes the next job of the queue: run_task_group starts and its
\* for loop calls run_one_task for the first Task of the group (lines 204-209).
\* The workers of a Pool are interchangeable: of the idle ones, the model lets the
\* one of lowest index take the job.
GroupStart(w) ==
    /\ main_pc = "wait"
    /\ workers[w].job = 0
    /\ \A v \in 1..(w - 1) : workers[v].job /= 0
    /\ pool_queue /= <<>>
    /\ workers' = [workers EXCEPT ![w] = [job |-> Head(pool_queue), pos |-> 1]]
    /\ job_status' = [job_status EXCEPT ![Head(pool_queue)] = "running"]
    /\ pool_queue' = Tail(pool_queue)
    /\ \E created \in BOOLEAN :
          run' = [run EXCEPT ![task_group_ids_items[Head(pool_queue)].items[1]] =
                                  Called(@, created)]
    /\ UNCHANGED <<args, num_processes, main_pc, error, locals,
                   task_group_ids_items, idx, agg_calls,
                   num_completed_tasks, now, cli>>

\* globals_mut.incre_task_return_msg(), line 210: the shared counter of completed
\* Tasks goes up by one, atomically
IncreTaskReturn(n) == n + 1

\* A loop that is left at the first Task that fails.
NextPosBreakOnFailure(pos, n, ok) == IF ok THEN pos + 1 ELSE n + 1

\* the position the for loop of line 207 goes to once run_one_task returned ok for
\* the Task at position pos: the next one, whatever ok is
NextPos(pos, n, ok) == pos + 1

\* the value run_one_task returned for the Task a worker's loop is at
ReturnedOf(w) == run[TaskOf(w)].results[Len(run[TaskOf(w)].results)]

\* lines 207-210: run_one_task returned, its value is dropped, the counter of
\* completed Tasks is incremented and the loop calls run_one_task for the next Task
GroupNext(w) ==
    /\ workers[w].job /= 0
    /\ run[TaskOf(w)].pc = "returned"
    /\ NextPos(workers[w].pos, Len(ItemsOf(w)), ReturnedOf(w)) <= Len(ItemsOf(w))
    /\ workers' = [workers EXCEPT ![w].pos =
                      NextPos(@, Len(ItemsOf(w)), ReturnedOf(w))]
    /\ \E created \in BOOLEAN :
          run' = [run EXCEPT ![ItemsOf(w)[workers'[w].pos]] = Called(@, created)]
    /\ num_completed_tasks' = IncreTaskReturn(num_completed_tasks)
    /\ UNCHANGED <<args, num_processes, main_pc, error, locals,
                   task_group_ids_items, idx, pool_queue, job_status, agg_calls, now, cli>>

\* lines 210-214: run_one_task returned for the last Task, the counter of completed
\* Tasks is incremented and run_task_group returns
GroupReturn(w) ==
    /\ workers[w].job /= 0
    /\ run[TaskOf(w)].pc = "returned"
    /\ NextPos(workers[w].pos, Len(ItemsOf(w)), ReturnedOf(w)) > Len(ItemsOf(w))
    /\ job_status' = [job_status EXCEPT ![workers[w].job] = "finished"]
    /\ workers' = [workers EXCEPT ![w] = [job |-> 0, pos |-> 0]]
    /\ num_completed_tasks' = IncreTaskReturn(num_completed_tasks)
    /\ UNCHANGED <<args, num_processes, main_pc, error, locals,
                   task_group_ids_items, idx, run, pool_queue, agg_calls, now, cli>>

\* line 209: run_one_task raised; the exception leaves run_task_group and the job fails
GroupRaise(w) ==
    /\ workers[w].job /= 0
    /\ run[TaskOf(w)].pc = "raised"
    /\ job_status' = [job_status EXCEPT ![workers[w].job] = "raised"]
    /\ workers' = [workers EXCEPT ![w] = [job |-> 0, pos |-> 0]]
    /\ UNCHANGED <<args, num_processes, main_pc, error, locals,
                   task_group_ids_items, idx, run, pool_queue, agg_calls,
                   num_completed_tasks, now, cli>>

AllJobsOver ==
    \A j \in 1..Len(job_status) : job_status[j] \in {"finished", "raised"}

AllJobsFinished ==
    \A j \in 1..Len(job_status) : job_status[j] = "finished"

\* lines 313-317: every job returned; starmap returns, the pool is closed and joined
PoolReturn ==
    /\ main_pc = "wait"
    /\ AllJobsFinished
    /\ main_pc' = "post"
    /\ UNCHANGED <<args, num_processes, error, locals, task_group_ids_items, idx,
                   run, pool, agg_calls,
                   num_completed_tasks, now, cli>>

\* line 313: once every job is over, starmap re-raises the exception of a failed job
StarmapRaise ==
    /\ main_pc = "wait"
    /\ AllJobsOver
    /\ ~AllJobsFinished
    /\ main_pc' = AfterPoolFailure
    /\ error' = "task"
    /\ UNCHANGED <<args, num_processes, locals, task_group_ids_items, idx, run,
                   pool, agg_calls,
                   num_completed_tasks, now, cli>>

\* lines 314-315: every job returned, and pool.close() or pool.join() raises
CloseJoinRaise ==
    /\ main_pc = "wait"
    /\ AllJobsFinished
    /\ main_pc' = AfterPoolFailure
    /\ error' = "pool"
    /\ UNCHANGED <<args, num_processes, locals, task_group_ids_items, idx, run,
                   pool, agg_calls,
                   num_completed_tasks, now, cli>>

\* ------------------------------------------------ completion, lines 319-326
\* An aggregation that does not look at the SBFL-only flag.
AlwaysAggregate(sbfl_only) == TRUE

\* whether line 325 is reached: the test of line 319
ShouldAggregate(sbfl_only) == ~sbfl_only

\* lines 319-321
ReturnSbflOnly ==
    /\ main_pc = "post"
    /\ ~ShouldAggregate(only_save_sbfl_result)
    /\ main_pc' = "returned"
    /\ UNCHANGED <<args, num_processes, error, locals, task_group_ids_items, idx,
                   run, pool, agg_calls,
                   num_completed_tasks, now, cli>>

\* lines 324-326: organize_and_form_input returns or raises
Aggregate ==
    /\ main_pc = "post"
    /\ ShouldAggregate(only_save_sbfl_result)
    /\ agg_calls' = agg_calls + 1
    /\ \/ main_pc' = "returned" /\ error' = error
       \/ main_pc' = "raised" /\ error' = "aggregator"
    /\ UNCHANGED <<args, num_processes, locals, task_group_ids_items, idx, run,
                   pool, num_completed_tasks, now, cli>>

Next ==
    \/ CheckParamsRaise
    \/ ParseIdsRaise
    \/ ParseIds
    \/ Prepare
    \/ \E i \in 1..Len(run) : Ctor(i)
    \/ \E i \in 1..Len(run) : Sbfl(i)
    \/ \E i \in 1..Len(run) : Inference(i)
    \/ \E i \in 1..Len(run) : Finally(i)
    \/ DispatchSingle
    \/ SingleCall
    \/ SingleRaise
    \/ SingleDone
    \/ DispatchMulti
    \/ PoolCreate
    \/ PoolCreateRaise
    \/ StarmapSubmit
    \/ StarmapSubmitRaise
    \/ \E w \in 1..Len(workers) : GroupStart(w)
    \/ \E w \in 1..Len(workers) : GroupNext(w)
    \/ \E w \in 1..Len(workers) : GroupReturn(w)
    \/ \E w \in 1..Len(workers) : GroupRaise(w)
    \/ PoolReturn
    \/ StarmapRaise
    \/ CloseJoinRaise
    \/ ReturnSbflOnly
    \/ Aggregate

Spec == Init /\ [][Next]_vars

\* ------------------------------------------------------------------ claims
Tasks == 1..Len(run)

\* run_one_task is running for Task i: it was called and neither returned nor raised
InFlight(i) == run[i].pc \in {"ctor", "sbfl", "run", "finally"}

\* entry_swe_bench_mode is over
Over == main_pc \in {"returned", "raised"}

\* the scheduler (lines 289-317) returned without an exception
Dispatched == main_pc \in {"post", "returned"} \/ error = "aggregator"

\* C1: run_one_task is never called twice for a Task and never yields more than one
\* result for a call; once the scheduler has returned, in single process and in
\* multi process mode, it has been called exactly once for each of the N Tasks and
\* each call has yielded exactly one result.
C1_EachTaskRunOnce ==
    /\ \A i \in Tasks : run[i].calls <= 1 /\ Len(run[i].results) <= run[i].calls
    /\ main_pc \notin {"check", "load"} => Len(run) = Len(all_tasks)
    /\ Dispatched => \A i \in Tasks : run[i].calls = 1 /\ Len(run[i].results) = 1

C1_Witness ==
    /\ main_pc = "returned"
    /\ Len(task_group_ids_items) = 2
    /\ Len(all_tasks) = 3
    /\ \A i \in Tasks : run[i].calls = 1 /\ Len(run[i].results) = 1

\* C2: at no time are two Tasks with the same environment name in flight (between
\* the call of run_one_task and its return).
C2_OneInFlightPerEnv ==
    \A i, j \in Tasks :
        i /= j /\ InFlight(i) /\ InFlight(j)
            => all_tasks[i].env_name /= all_tasks[j].env_name

C2_Witness ==
    \E i, j, k \in Tasks :
        /\ i /= j /\ InFlight(i) /\ InFlight(j)
        /\ k /= i /\ all_tasks[k].env_name = all_tasks[i].env_name

\* C3: whatever inference.run_one_task did (returned True, returned False or
\* raised), the repository reset and the release of the logger have each been done
\* exactly once when run_one_task returns, and run_one_task does return.
C3_CleanupOnce ==
    \A i \in Tasks :
        run[i].inf /= "none" =>
            \/ run[i].pc = "finally" /\ run[i].resets = 0 /\ run[i].releases = 0
            \/ run[i].pc = "returned" /\ run[i].resets = 1 /\ run[i].releases = 1

C3_Witness ==
    \E i \in Tasks :
        run[i].inf = "raise" /\ run[i].pc = "returned"
            /\ run[i].resets = 1 /\ run[i].releases = 1

\* the cleanup a finished run_one_task owes: the logger released and, the API
\* manager having been constructed, the repository reset
CleanedUp(r) == r.releases = 1 /\ (r.ctor = "ok" => r.resets = 1)

\* C4: every run_one_task that got past the creation of its output directory ends
\* cleaned up, on the initialization failure path and on the SBFL-only path too.
C4_CleanedUpOnEveryPath ==
    \A i \in Tasks : run[i].pc = "returned" => CleanedUp(run[i])

\* C5: an exception of inference.run_one_task never leaves run_one_task: the call
\* returns False with the "failed with exception" message; and a call that ran the
\* inference returns True exactly when the inference returned True.
C5_RunExceptionContained ==
    \A i \in Tasks :
        /\ run[i].inf = "raise" =>
              /\ run[i].pc \in {"finally", "returned"}
              /\ run[i].msg = "failed with exception"
              /\ run[i].pc = "returned" => run[i].results = <<FALSE>>
        /\ run[i].inf /= "none" /\ run[i].pc = "returned" =>
              run[i].results = <<run[i].inf = "ok">>

C5_Witness ==
    \E i, j \in Tasks :
        /\ run[i].inf = "raise" /\ run[i].results = <<FALSE>>
        /\ run[j].inf = "ok" /\ run[j].results = <<TRUE>>

\* C6: a Task whose ProjectApiManager construction raised has returned False; the
\* failure aborts nothing: a run that ended without a filesystem or pool failure
\* has run every Task to its return and, outside the SBFL-only mode, has called
\* the aggregator.
C6_InitFailureContained ==
    /\ \A i \in Tasks :
          run[i].ctor = "raise" =>
              /\ run[i].pc = "returned"
              /\ run[i].results = <<FALSE>>
              /\ run[i].msg = "failed with exception when creating API manager"
    /\ error = "task" => \E i \in Tasks : run[i].pc = "raised" /\ run[i].ctor = "none"
    /\ Over /\ error \in {"none", "aggregator"} =>
          /\ \A i \in Tasks : run[i].pc = "returned"
          /\ ~only_save_sbfl_result => agg_calls = 1

C6_Witness ==
    /\ main_pc = "returned"
    /\ agg_calls = 1
    /\ Len(task_group_ids_items) = 2
    /\ \E i, j, k \in Tasks :
          /\ run[i].ctor = "raise" /\ i < j
          /\ all_tasks[i].env_name = all_tasks[j].env_name
          /\ all_tasks[i].env_name /= all_tasks[k].env_name
          /\ run[j].results = <<TRUE>> /\ run[k].results = <<TRUE>>

\* C7: in every group the Tasks are run one after the other in the group's order (a
\* Task is not called before its predecessor in the group has returned), and a job
\* that finished has run every Task of its group, those after a failed Task too;
\* only an exception leaving run_one_task ends a job early.
C7_GroupSequential ==
    /\ \A g \in 1..Len(task_groups) : \A k \in 1..(Len(task_groups[g].items) - 1) :
          run[task_groups[g].items[k + 1]].calls > 0
              => run[task_groups[g].items[k]].pc = "returned"
    /\ \A j \in 1..Len(job_status) :
          /\ job_status[j] = "finished" =>
                \A k \in 1..Len(task_group_ids_items[j].items) :
                    run[task_group_ids_items[j].items[k]].pc = "returned"
          /\ job_status[j] = "raised" =>
                \E k \in 1..Len(task_group_ids_items[j].items) :
                    run[task_group_ids_items[j].items[k]].pc = "raised"

C7_Witness ==
    \E j \in 1..Len(job_status) :
        /\ job_status[j] = "finished"
        /\ Len(task_group_ids_items[j].items) >= 2
        /\ run[task_group_ids_items[j].items[1]].results = <<FALSE>>
        /\ run[task_group_ids_items[j].items[2]].pc = "returned"

\* C8: the aggregator is called at most once, only outside the SBFL-only mode and
\* only once every Task has returned; a run that ends without a filesystem or pool
\* failure outside the SBFL-only mode has called it exactly once; whether it
\* returned or raised, no Task has been run a second time.
C8_AggregateOnce ==
    /\ agg_calls <= 1
    /\ only_save_sbfl_result => agg_calls = 0
    /\ agg_calls = 1 => \A i \in Tasks : run[i].pc = "returned" /\ run[i].calls = 1
    /\ agg_calls = 1 => Over
    /\ Over /\ error \in {"none", "aggregator"} /\ ~only_save_sbfl_result
          => agg_calls = 1

C8_Witness ==
    /\ main_pc = "raised" /\ error = "aggregator"
    /\ agg_calls = 1
    /\ Len(all_tasks) >= 2
    /\ \A i \in Tasks : run[i].calls = 1

\* C9: when creating the pool, submitting the jobs or joining the pool raises, or
\* starmap re-raises the exception of a job, entry_swe_bench_mode ends with that
\* exception and the aggregator is not called.
C9_NoAggregationAfterPoolFailure ==
    error \in {"pool", "task"} => main_pc = "raised" /\ agg_calls = 0

C9_Witness ==
    /\ error = "pool"
    /\ main_pc = "raised"
    /\ Len(all_tasks) >= 2
    /\ \A i \in Tasks : run[i].pc = "returned"

\* C10: in the SBFL-only mode the inference is never run, and run_one_task returns
\* what fault_localization returned.
C10_SbflReturnsItsResult ==
    /\ only_save_sbfl_result => \A i \in Tasks : run[i].inf = "none"
    /\ \A i \in Tasks :
          run[i].fl /= "none" => run[i].results = <<run[i].fl = "ok">>

\* ------------------------------------------- the dispatch of sized groups
\* The order of submission is a matter of group sizes, and three groups of
\* different sizes need more Tasks than MaxTasks.  DispatchSpec starts where
\* Prepare ends (line 287), for a task list whose groups have the sizes drawn,
\* and runs lines 297-313.
MaxGroups == 3
MaxGroupSize == 5

\* the lists of group sizes drawn
GroupSizes == UNION {[1..k -> 1..MaxGroupSize] : k \in 1..MaxGroups}

RECURSIVE SumTo(_, _)
SumTo(sizes, g) == IF g = 0 THEN 0 ELSE sizes[g] + SumTo(sizes, g - 1)

\* a setup map of SumTo(sizes, Len(sizes)) ids whose g-th environment has
\* sizes[g] ids, the ids of an environment being contiguous
SetupMapOfSizes(sizes) ==
    [t \in 1..SumTo(sizes, Len(sizes)) |->
        CHOOSE g \in 1..Len(sizes) : SumTo(sizes, g - 1) < t /\ t <= SumTo(sizes, g)]

\* the state of entry_swe_bench_mode at line 287
DispatchInit ==
    /\ \E sizes \in GroupSizes : setup_map = SetupMapOfSizes(sizes)
    /\ tasks_map = DOMAIN setup_map
    /\ all_task_ids = [t \in DOMAIN setup_map |-> t]
    /\ missing_task_ids = <<>>
    /\ all_tasks = MakeTasks(all_task_ids, setup_map)
    /\ task_groups = GroupTasks(all_tasks)
    /\ run = [k \in 1..Len(all_tasks) |-> NotRun]
    /\ task_id = <<all_task_ids[Len(all_task_ids)]>>
    /\ task_list_file = <<"file">>
    /\ num_processes \in 2..MaxProcesses
    /\ only_save_sbfl_result \in BOOLEAN
    /\ main_pc = "dispatch"
    /\ error = "none"
    /\ task_group_ids_items = <<>>
    /\ idx = 0
    /\ pool_queue = <<>>
    /\ job_status = <<>>
    /\ workers = <<>>
    /\ agg_calls = 0
    /\ num_completed_tasks = 0
    /\ now = 0
    /\ mode = "swe_bench"
    /\ extract_patches = <<>>
    /\ re_extract_patches = <<>>
    /\ extract_calls = 0
    /\ MODEL_COST_PER_INPUT = 1
    /\ MODEL_COST_PER_OUTPUT = 2

DispatchNext ==
    \/ DispatchMulti
    \/ PoolCreate
    \/ StarmapSubmit

DispatchSpec == DispatchInit /\ [][DispatchNext]_vars

\* the sizes of a list of groups
SizesOf(groups) == [g \in 1..Len(groups) |-> Len(groups[g].items)]

\* C11: in multi process mode the list handed to starmap is a permutation of the
\* groups in which no group precedes a strictly larger one, and starmap queues the
\* jobs in the order of that list.
C11_SubmittedBySizeDescending ==
    main_pc \in {"pool_create", "starmap", "wait"} =>
        /\ Len(task_group_ids_items) = Len(task_groups)
        /\ \A g \in 1..Len(task_groups) :
              Cardinality({j \in 1..Len(task_group_ids_items) :
                              task_group_ids_items[j] = task_groups[g]}) = 1
        /\ \A j, k \in 1..Len(task_group_ids_items) :
              j < k => Len(task_group_ids_items[j].items)
                           >= Len(task_group_ids_items[k].items)
        /\ main_pc = "wait" =>
              pool_queue = [j \in 1..Len(task_group_ids_items) |-> j]

C11_Witness ==
    /\ main_pc = "wait"
    /\ SizesOf(task_groups) = <<5, 1, 3>>
    /\ SizesOf(task_group_ids_items) = <<5, 3, 1>>
    /\ Len(pool_queue) = 3

\* the places (group, position) of Task t in a list of groups
PlacesOf(groups, t) ==
    {<<g, k>> \in (1..Len(groups)) \X (1..Len(all_tasks)) :
        k <= Len(groups[g].items) /\ groups[g].items[k] = t}

\* C12: the groups the loop of lines 274-280 has built partition the N Tasks by
\* environment name: every Task is at exactly one place, in the group of its own
\* env_name; the group sizes sum to N; no group is empty and no two groups have the
\* same key; within a group the Tasks are in the order of the input list.
C12_GroupsPartitionTasks ==
    main_pc = "dispatch" =>
        /\ \A t \in 1..Len(all_tasks) :
              /\ Cardinality(PlacesOf(task_groups, t)) = 1
              /\ \A p \in PlacesOf(task_groups, t) :
                    task_groups[p[1]].key = all_tasks[t].env_name
        /\ SumTo(SizesOf(task_groups), Len(task_groups)) = Len(all_tasks)
        /\ \A g \in 1..Len(task_groups) :
              /\ task_groups[g].items /= <<>>
              /\ \A h \in 1..Len(task_groups) :
                    g /= h => task_groups[g].key /= task_groups[h].key
              /\ \A j, k \in 1..Len(task_groups[g].items) :
                    j < k => task_groups[g].items[j] < task_groups[g].items[k]

C12_Witness ==
    /\ Len(all_tasks) = 3
    /\ all_tasks[1].env_name = all_tasks[3].env_name
    /\ all_tasks[1].env_name /= all_tasks[2].env_name
    /\ Len(task_groups) = 2
    /\ task_groups[1].items = <<1, 3>>
    /\ task_groups[2].items = <<2>>

\* the workers that are running a group
Busy == {w \in 1..Len(workers) : workers[w].job /= 0}

\* the Tasks of job j
JobTasks(j) == Range(task_group_ids_items[j].items)

\* a pool of num_processes workers, none more than there are groups; a group is
\* waiting in the queue (none of its Tasks called), held by exactly one worker, or
\* over; a Task in flight is the one the worker holding its group is at
PoolWithinClamp ==
    workers /= <<>> =>
        /\ Len(workers) = num_processes
        /\ Len(workers) <= Len(task_groups)
        /\ Cardinality(Busy) <= Len(workers)
        /\ \A j \in 1..Len(job_status) :
              /\ job_status[j] = "queued" =>
                    /\ \A t \in JobTasks(j) : run[t].calls = 0
                    /\ \A w \in Busy : workers[w].job /= j
              /\ job_status[j] = "running" =>
                    /\ Cardinality({w \in Busy : workers[w].job = j}) = 1
                    /\ \A t \in JobTasks(j) :
                          InFlight(t) => \E w \in Busy :
                              workers[w].job = j /\ TaskOf(w) = t
              /\ job_status[j] \in {"finished", "raised"} =>
                    /\ \A w \in Busy : workers[w].job /= j
                    /\ \A t \in JobTasks(j) : ~InFlight(t)

\* C13: line 301 sets the pool size to the smaller of the number of processes asked
\* for and the number of groups; the pool has that many workers; every group is run
\* by one worker, so no more groups than that are run at a time.
C13_PoolClamped ==
    /\ [][main_pc = "dispatch" /\ main_pc' = "pool_create" =>
              /\ num_processes' <= num_processes
              /\ num_processes' <= Len(task_groups)
              /\ num_processes' \in {num_processes, Len(task_groups)}]_vars
    /\ []PoolWithinClamp

C13_Witness ==
    /\ main_pc = "wait"
    /\ Len(workers) = 1
    /\ Len(task_groups) = 1
    /\ Len(all_tasks) = 3
    /\ workers[1].job = 1 /\ workers[1].pos = 2
    /\ InFlight(2)

\* entry_swe_bench_mode took the branch of line 290
SingleMode ==
    \/ main_pc = "single_loop"
    \/ idx > 0
    \/ num_processes = 1 /\ workers = <<>> /\ Dispatched

\* C14: with one process the groups are handed to nobody (no job, no pool): the
\* Tasks called are those of the first idx positions of the sorted list, each
\* called once and only after all those before it have returned, whatever their
\* environment names; so at most one Task is in flight.
C14_SingleModeFlatOrder ==
    /\ idx > 0 => num_processes = 1 /\ idx <= Len(all_tasks)
    /\ SingleMode =>
          /\ task_group_ids_items = <<>> /\ job_status = <<>> /\ workers = <<>>
          /\ \A t \in Tasks : run[t].calls = IF t <= idx THEN 1 ELSE 0
          /\ \A t \in Tasks : t < idx => run[t].pc = "returned"
          /\ Cardinality({t \in Tasks : InFlight(t)}) <= 1
          /\ \A t, u \in Tasks :
                t < u => all_tasks[t].task_id <= all_tasks[u].task_id

C14_Witness ==
    /\ main_pc = "single_loop"
    /\ Len(all_tasks) = 3
    /\ all_tasks[1].env_name = all_tasks[3].env_name
    /\ all_tasks[1].env_name /= all_tasks[2].env_name
    /\ idx = 2
    /\ run[1].pc = "returned" /\ InFlight(2) /\ run[3].calls = 0

\* C15: a failure to create a Task's output directory (lines 82-106 raise) aborts
\* that Task only: entry_swe_bench_mode does not end with the Task's exception and
\* every other Task, of its group and of the run, has been called.
C15_DirFailureAbortsOnlyTask ==
    Over /\ (\E t \in Tasks : run[t].pc = "raised") =>
        /\ error /= "task"
        /\ \A u \in Tasks : run[u].calls = 1

\* C16: once the scheduler has returned, for one process or several, the counter
\* of completed Tasks equals the number N of Tasks.
C16_CounterCountsEveryTask ==
    Dispatched => num_completed_tasks = Len(all_tasks)

\* ------------------------------------------------ the output directories
\* In Spec no time passes.  ClockSpec lets the clock advance between any two steps
\* of the program, up to MaxTicks.
MaxTicks == 3

\* the ticks of the clock in a second, the resolution of the format of line 83
TicksPerSecond == 2

Tick ==
    /\ now < MaxTicks
    /\ now' = now + 1
    /\ UNCHANGED <<args, num_processes, main_pc, error, locals,
                   task_group_ids_items, idx, run, pool, agg_calls,
                   num_completed_tasks, cli>>

ClockNext == Next \/ Tick

ClockSpec == Init /\ [][ClockNext]_vars

\* start_time.strftime("%Y-%m-%d_%H-%M-%S"), line 83: the time to the second
StartTimeS(start_time) == start_time \div TicksPerSecond

\* task_id + "_" + start_time_s, line 84: the timestamp has a fixed length, so
\* the name is the pair of the id and the timestamp
TaskOutputDir(t) == <<all_tasks[t].task_id, StartTimeS(run[t].start_time)>>

\* C17: no two executions of run_one_task share an output directory, be they of
\* different ids (started in the same second or not) or of the same id, listed
\* twice, started at different times.
C17_OutputDirsDistinct ==
    \A t, u \in Tasks :
        /\ t /= u /\ run[t].calls > 0 /\ run[u].calls > 0
        /\ \/ all_tasks[t].task_id /= all_tasks[u].task_id
           \/ run[t].start_time /= run[u].start_time
        => TaskOutputDir(t) /= TaskOutputDir(u)

\* ------------------------------------------------------ main, lines 441-670
\* Spec starts at the call of entry_swe_bench_mode (line 653).  MainSpec starts
\* where main has parsed its arguments (line 630).
MainInit ==
    /\ task_id \in {<<>>} \cup {<<i>> : i \in TaskIds}
    /\ task_list_file \in {<<>>, <<"file">>}
    /\ num_processes \in 1..MaxProcesses
    /\ only_save_sbfl_result \in BOOLEAN
    /\ mode \in {"swe_bench", "fresh_issue"}
    /\ extract_patches \in {<<>>, <<"dir">>}
    /\ re_extract_patches \in {<<>>, <<"dir">>}
    /\ extract_calls = 0
    /\ MODEL_COST_PER_INPUT = 1
    /\ MODEL_COST_PER_OUTPUT = 2
    /\ setup_map = <<>>
    /\ tasks_map = {}
    /\ main_pc = "main"
    /\ error = "none"
    /\ all_task_ids = <<>>
    /\ missing_task_ids = <<>>
    /\ all_tasks = <<>>
    /\ task_groups = <<>>
    /\ task_group_ids_items = <<>>
    /\ idx = 0
    /\ run = <<>>
    /\ pool_queue = <<>>
    /\ job_status = <<>>
    /\ workers = <<>>
    /\ agg_calls = 0
    /\ num_completed_tasks = 0
    /\ now = 0

\* the test of line 633
SbflWithExtract(sbfl_only, extract) == sbfl_only /\ extract /= <<>>

\* lines 633-636
MainRaise ==
    /\ main_pc = "main"
    /\ SbflWithExtract(only_save_sbfl_result, extract_patches)
    /\ main_pc' = "raised"
    /\ error' = "ValueError"
    /\ UNCHANGED <<args, num_processes, locals, task_group_ids_items, idx, run,
                   pool, agg_calls, num_completed_tasks, now, cli>>

\* lines 639-647: one of the two patch extraction functions is called, and returns
\* or raises
MainExtract ==
    /\ main_pc = "main"
    /\ ~SbflWithExtract(only_save_sbfl_result, extract_patches)
    /\ re_extract_patches /= <<>> \/ extract_patches /= <<>>
    /\ extract_calls' = extract_calls + 1
    /\ \/ main_pc' = "returned" /\ error' = error
       \/ main_pc' = "raised" /\ error' = "extract"
    /\ UNCHANGED <<args, num_processes, locals, task_group_ids_items, idx, run,
                   pool, agg_calls, num_completed_tasks, now, mode,
                   extract_patches, re_extract_patches, MODEL_COST_PER_INPUT,
                   MODEL_COST_PER_OUTPUT>>

\* lines 649-667: main calls entry_swe_bench_mode, or entry_fresh_issue_mode
MainEntry ==
    /\ main_pc = "main"
    /\ ~SbflWithExtract(only_save_sbfl_result, extract_patches)
    /\ re_extract_patches = <<>> /\ extract_patches = <<>>
    /\ main_pc' = IF mode = "swe_bench" THEN "check" ELSE "fresh_issue"
    /\ UNCHANGED <<args, num_processes, error, locals, task_group_ids_items, idx,
                   run, pool, agg_calls, num_completed_tasks, now, cli>>

MainNext == MainRaise \/ MainExtract \/ MainEntry \/ Next

MainSpec == MainInit /\ [][MainNext]_vars

\* nothing has been run: no Task exists, nothing was aggregated or extracted
NothingRun == run = <<>> /\ agg_calls = 0 /\ extract_calls = 0

C19_OneStatusLine ==
    \A i \in Tasks : run[i].pc = "returned" => run[i].status_lines = 1

\* C20: a Task whose ProjectApiManager construction raised has returned False with
\* nothing else done: no fault localization, no inference, no dump, no cost
\* record, no repository reset; the logger has been released, once.
C20_InitFailureDoesNothingElse ==
    \A i \in Tasks :
        run[i].ctor = "raise" =>
            /\ run[i].pc = "returned"
            /\ run[i].results = <<FALSE>>
            /\ run[i].fl = "none" /\ run[i].inf = "none"
            /\ run[i].dumps = 0 /\ run[i].costs = 0 /\ run[i].resets = 0
            /\ run[i].releases = 1

C20_Witness ==
    \E i, j \in Tasks :
        /\ run[i].ctor = "raise" /\ run[i].pc = "returned"
        /\ run[i].resets = 0 /\ run[i].costs = 0 /\ run[i].releases = 1
        /\ run[j].ctor = "ok" /\ run[j].pc = "returned" /\ run[j].resets = 1

\* ------------------------------------------------------- the cost record
\* In Spec the two costs are fixed and the api_manager counts no tokens.  CostSpec
\* starts at line 162 of the run_one_task of a single Task, in single process
\* mode, for the costs of the model and the token counters drawn, and runs the
\* finally block.
MaxCost == 2
MaxTokens == 3

CostInit ==
    /\ MODEL_COST_PER_INPUT \in 0..MaxCost
    /\ MODEL_COST_PER_OUTPUT \in 0..MaxCost
    /\ \E outcome \in {"ok", "fail", "raise"} :
       \E input_tokens, output_tokens \in 0..MaxTokens :
          run = <<[TryInference([NotRun EXCEPT !.pc = "run", !.calls = 1,
                                                !.ctor = "ok"], outcome)
                      EXCEPT !.input_tokens = input_tokens,
                             !.output_tokens = output_tokens]>>
    /\ task_id = <<1>>
    /\ task_list_file = <<>>
    /\ num_processes = 1
    /\ only_save_sbfl_result = FALSE
    /\ setup_map = [t \in {1} |-> 1]
    /\ tasks_map = {1}
    /\ all_task_ids = <<1>>
    /\ missing_task_ids = <<>>
    /\ all_tasks = MakeTasks(all_task_ids, setup_map)
    /\ task_groups = GroupTasks(all_tasks)
    /\ task_group_ids_items = <<>>
    /\ main_pc = "single_loop"
    /\ error = "none"
    /\ idx = 1
    /\ pool_queue = <<>>
    /\ job_status = <<>>
    /\ workers = <<>>
    /\ agg_calls = 0
    /\ num_completed_tasks = 0
    /\ now = 0
    /\ mode = "swe_bench"
    /\ extract_patches = <<>>
    /\ re_extract_patches = <<>>
    /\ extract_calls = 0

CostNext == \E i \in 1..Len(run) : Finally(i)

CostSpec == CostInit /\ [][CostNext]_vars

\* C21: the cost record written for a Task has the configured input cost of the
\* model as input_cost_per_token, its configured output cost as
\* output_cost_per_token, and total_tokens = total_input_tokens +
\* total_output_tokens.
C21_CostRecordFromConfig ==
    \A i \in Tasks : \A k \in 1..Len(run[i].cost_json) :
        /\ run[i].cost_json[k].input_cost_per_token = MODEL_COST_PER_INPUT
        /\ run[i].cost_json[k].output_cost_per_token = MODEL_COST_PER_OUTPUT
        /\ run[i].cost_json[k].total_tokens =
              run[i].cost_json[k].total_input_tokens
                  + run[i].cost_json[k].total_output_tokens

\* the ids of the Tasks run_one_task has been called for
ExecutedIds == {all_tasks[t].task_id : t \in {u \in Tasks : run[u].calls > 0}}

\* the positions of the list ids whose id is a key of both maps
FoundAt(ids, smap, tmap) ==
    {k \in 1..Len(ids) : ids[k] \in DOMAIN smap /\ ids[k] \in tmap}

\* C23: lines 246-259 keep of the requested ids exactly those that are keys of
\* both maps, as many times as they were requested; the Tasks are built for the
\* ids kept; no Task of a missing id exists, so none is ever executed; and once
\* the scheduler has returned, the ids executed are exactly the ids kept, also
\* when none is kept.
C23_ExecutedAreTheFoundIds ==
    /\ [][main_pc = "load" /\ main_pc' = "dispatch" =>
              /\ Range(all_task_ids') =
                    {all_task_ids[k] : k \in FoundAt(all_task_ids, setup_map', tasks_map')}
              /\ Len(all_task_ids') =
                    Cardinality(FoundAt(all_task_ids, setup_map', tasks_map'))
              /\ Range(missing_task_ids') =
                    Range(all_task_ids) \ Range(all_task_ids')]_vars
    /\ [](main_pc \notin {"main", "check", "load"} =>
              /\ Len(all_tasks) = Len(all_task_ids)
              /\ \A t \in Tasks :
                    /\ all_tasks[t].task_id = all_task_ids[t]
                    /\ all_tasks[t].task_id \in DOMAIN setup_map
                    /\ all_tasks[t].task_id \in tasks_map
              /\ ExecutedIds \subseteq Range(all_task_ids)
              /\ ExecutedIds \cap Range(missing_task_ids) = {}
              /\ Dispatched => ExecutedIds = Range(all_task_ids))

C23_Witness ==
    /\ main_pc = "returned"
    /\ missing_task_ids = <<3>>
    /\ all_task_ids = <<1, 2>>
    /\ ExecutedIds = {1, 2}
    /\ 3 \notin DOMAIN setup_map \/ 3 \notin tasks_map

\* ---------------------------------------------------------------- progress
\* the steps of the run_one_task of Task i: each call it makes returns or raises
TaskStep(i) ==
    /\ i \in 1..Len(run)
    /\ Ctor(i) \/ Sbfl(i) \/ Inference(i) \/ Finally(i)

\* the steps of pool worker w
WorkerStep(w) ==
    /\ w \in 1..Len(workers)
    /\ GroupStart(w) \/ GroupNext(w) \/ GroupReturn(w) \/ GroupRaise(w)

\* the steps of the process that runs entry_swe_bench_mode
MainStep ==
    \/ CheckParamsRaise \/ ParseIdsRaise \/ ParseIds \/ Prepare
    \/ DispatchSingle \/ SingleCall \/ SingleRaise \/ SingleDone
    \/ DispatchMulti \/ PoolCreate \/ PoolCreateRaise
    \/ StarmapSubmit \/ StarmapSubmitRaise
    \/ PoolReturn \/ StarmapRaise \/ CloseJoinRaise
    \/ ReturnSbflOnly \/ Aggregate

\* Every process keeps running: the main process, each pool worker and each call
\* in progress take their next step when they have one.
FairSpec ==
    /\ Spec
    /\ WF_vars(MainStep)
    /\ \A w \in 1..MaxProcesses : WF_vars(WorkerStep(w))
    /\ \A i \in 1..MaxTasks : WF_vars(TaskStep(i))

\* C22: in a run whose parameters are accepted and whose pool does not fail, every
\* call terminating, the scheduler eventually returns with every Task started and
\* finished and every group's job finished.
C22_EveryRunCompletes ==
    [](error \notin {"ValueError", "pool"}) =>
        <>(/\ Dispatched
           /\ \A t \in Tasks : run[t].calls = 1 /\ run[t].pc = "returned"
           /\ AllJobsFinished)

====
